---- MODULE Spec2Model ----
\* Model of the reconciliation pipeline of internal/ingress/controller/kong.go:
\* toDeckContent (canonical rendering with default filling), generateSHA,
\* renderConfigWithCustomEntities, cleanUpNulls and OnUpdate with its two
\* strategies (in-memory POST /config and DB-mode dump/diff/solve).
EXTENDS Integers, Sequences, FiniteSets, TLC

\* ---------------------------------------------------------------------
\* Values.  A Go nil pointer / nil map is NilP; a JSON null config value
\* is Null.  Strings are byte sequences so that strings.Compare is byte-wise.
\* ---------------------------------------------------------------------
NilP == "nil"
Null == "null"
\* nil values of the typed pointer fields (a nil *string is not a byte
\* string, a nil map is not a map with keys, a nil *int is not a status code)
NilStr == <<-1>>
NilMap == "nilmap" :> TRUE
NilInt == -1
NilHash == <<>>
NilInfo == <<>>

SA == <<97>>
SB == <<98>>
SAB == <<97, 98>>

Last(s) == s[Len(s)]
Front(s) == SubSeq(s, 1, Len(s) - 1)
MapSeq(s, F(_)) == [i \in 1..Len(s) |-> F(s[i])]

\* strings.Compare(s, t) < 0
RECURSIVE StrLess(_, _)
StrLess(s, t) ==
  IF t = <<>> THEN FALSE
  ELSE IF s = <<>> THEN TRUE
  ELSE IF Head(s) < Head(t) THEN TRUE
  ELSE IF Head(s) > Head(t) THEN FALSE
  ELSE StrLess(Tail(s), Tail(t))

\* sort.SliceStable: insert after every element whose key is not greater
RECURSIVE InsertStable(_, _)
InsertStable(sorted, p) ==
  IF sorted = <<>> THEN <<p>>
  ELSE IF StrLess(p[1], Last(sorted)[1])
       THEN Append(InsertStable(Front(sorted), p), Last(sorted))
       ELSE Append(sorted, p)

RECURSIVE SortPairs(_)
SortPairs(ps) ==
  IF ps = <<>> THEN <<>> ELSE InsertStable(SortPairs(Front(ps)), Last(ps))

sortByString(seq, F(_)) ==
  LET sorted == SortPairs([i \in 1..Len(seq) |-> <<F(seq[i]), seq[i]>>])
  IN [i \in 1..Len(sorted) |-> sorted[i][2]]

\* ---------------------------------------------------------------------
\* Plugin configuration maps (kong.Configuration)
\* ---------------------------------------------------------------------
EmptyCfg == [k \in {} |-> Null]

\* Schema-derived defaults merged into a copy of the configuration: every
\* schema field absent from the configuration gets its default.
SchemaDefaults == "b" :> "2"
fill(config) ==
  [k \in DOMAIN config \cup DOMAIN SchemaDefaults |->
     IF k \in DOMAIN config THEN config[k] ELSE SchemaDefaults[k]]

\* fillPlugin: sch maps a plugin name to the outcome of the schema store
\* lookup and of fill ("ok", "schemaErr", "fillErr").
fillPlugin(p, sch) ==
  IF p.name = NilStr \/ p.name = <<>> THEN [p |-> p, err |-> TRUE]
  ELSE IF sch[p.name] = "schemaErr" THEN [p |-> p, err |-> TRUE]
  ELSE LET c == IF p.config = NilMap THEN EmptyCfg ELSE p.config IN
       IF sch[p.name] = "fillErr"
       THEN [p |-> [p EXCEPT !.config = c], err |-> TRUE]
       ELSE [p |-> [p EXCEPT !.config = fill(c),
                             !.enabled = IF @ = NilP THEN "true" ELSE @,
                             !.protocols = IF @ = <<>> THEN <<"http", "https">> ELSE @,
                             !.runOn = NilP],
             err |-> FALSE]

fillRoute(r) ==
  [r EXCEPT !.httpsRedirectStatusCode = IF @ = NilInt THEN 426 ELSE @,
            !.pathHandling = IF @ = NilP THEN "v0" ELSE @]

fillUpstream(u) == [u EXCEPT !.algorithm = IF @ = NilP THEN "round-robin" ELSE @]

pluginString(p) ==
  (IF p.name # NilStr THEN p.name ELSE <<>>)
  \o (IF p.consumer # NilStr THEN p.consumer ELSE <<>>)
  \o (IF p.route # NilStr THEN p.route ELSE <<>>)
  \o (IF p.service # NilStr THEN p.service ELSE <<>>)

\* ---------------------------------------------------------------------
\* toDeckContent
\* ---------------------------------------------------------------------
\* service and route plugins: DeepCopy, fillPlugin, append, re-sort by name
RECURSIVE AppendFilledSorted(_, _, _)
AppendFilledSorted(acc, ps, sch) ==
  IF ps = <<>> THEN acc
  ELSE AppendFilledSorted(
         sortByString(Append(acc, fillPlugin(Head(ps), sch).p), LAMBDA x : x.name),
         Tail(ps), sch)

renderRoute(r, sch) ==
  [route |-> fillRoute(r.route),
   plugins |-> AppendFilledSorted(<<>>, r.plugins, sch)]

renderService(s, sch) ==
  [service |-> s.service,
   plugins |-> AppendFilledSorted(<<>>, s.plugins, sch),
   routes |-> sortByString(MapSeq(s.routes, LAMBDA r : renderRoute(r, sch)),
                           LAMBDA x : x.route.name)]

renderUpstream(u) ==
  [upstream |-> fillUpstream(u.upstream),
   targets |-> sortByString(u.targets, LAMBDA t : t.target)]

renderConsumer(c) ==
  [consumer |-> c.consumer,
   plugins |-> c.plugins,
   keyAuths |-> sortByString(c.keyAuths, LAMBDA x : x.key),
   hmacAuths |-> sortByString(c.hmacAuths, LAMBDA x : x.username),
   basicAuths |-> sortByString(c.basicAuths, LAMBDA x : x.username),
   jwtAuths |-> sortByString(c.jwtAuths, LAMBDA x : x.key),
   oauth2Creds |-> sortByString(c.oauth2Creds, LAMBDA x : x.clientID)]

\* toDeckContent panics on a nil pointer dereference when
\*  - a service, route or top-level plugin has a nil Name: fillPlugin fails
\*    and the error log dereferences *plugin.Name (lines 312, 328, 346);
\*  - a collection of two or more elements has an element with a nil sort
\*    key: sortByString's less function dereferences it (sort.SliceStable
\*    compares every element at least once when there are two or more).
NilKeyPanics(seq, K(_)) == Len(seq) >= 2 /\ \E i \in DOMAIN seq : K(seq[i]) = NilStr
\* the error logs of lines 312, 328 and 346 dereference the nil plugin name
FillLogPanics(k) ==
  \/ \E i \in DOMAIN k.services :
       LET s == k.services[i] IN
       \/ \E j \in DOMAIN s.plugins : s.plugins[j].name = NilStr
       \/ \E r \in DOMAIN s.routes : \E j \in DOMAIN s.routes[r].plugins :
             s.routes[r].plugins[j].name = NilStr
  \/ \E i \in DOMAIN k.plugins : k.plugins[i].name = NilStr
\* the sortByString comparators dereference a nil sort key
SortKeyPanics(k) ==
  \/ \E i \in DOMAIN k.services : NilKeyPanics(k.services[i].routes, LAMBDA x : x.route.name)
  \/ NilKeyPanics(k.services, LAMBDA x : x.service.name)
  \/ NilKeyPanics(k.upstreams, LAMBDA x : x.upstream.name)
  \/ \E i \in DOMAIN k.upstreams : NilKeyPanics(k.upstreams[i].targets, LAMBDA x : x.target)
  \/ NilKeyPanics(k.certificates, LAMBDA x : x.cert)
  \/ NilKeyPanics(k.caCertificates, LAMBDA x : x.cert)
  \/ NilKeyPanics(k.consumers, LAMBDA x : x.consumer.username)
  \/ \E i \in DOMAIN k.consumers :
       LET c == k.consumers[i] IN
       \/ NilKeyPanics(c.keyAuths, LAMBDA x : x.key)
       \/ NilKeyPanics(c.hmacAuths, LAMBDA x : x.username)
       \/ NilKeyPanics(c.basicAuths, LAMBDA x : x.username)
       \/ NilKeyPanics(c.jwtAuths, LAMBDA x : x.key)
       \/ NilKeyPanics(c.oauth2Creds, LAMBDA x : x.clientID)
toDeckContentPanics(k) == FillLogPanics(k) \/ SortKeyPanics(k)

toDeckContent(k, sch, tags) ==
  [formatVersion |-> "1.1",
   info |-> IF tags # <<>> THEN <<[selectorTags |-> tags]>> ELSE NilInfo,
   services |-> sortByString(MapSeq(k.services, LAMBDA s : renderService(s, sch)),
                             LAMBDA x : x.service.name),
   routes |-> <<>>,
   plugins |-> sortByString(MapSeq(k.plugins, LAMBDA p : fillPlugin(p, sch).p),
                            pluginString),
   upstreams |-> sortByString(MapSeq(k.upstreams, renderUpstream),
                              LAMBDA x : x.upstream.name),
   certificates |-> sortByString(k.certificates, LAMBDA x : x.cert),
   caCertificates |-> sortByString(k.caCertificates, LAMBDA x : x.cert),
   consumers |-> sortByString(MapSeq(k.consumers, renderConsumer),
                              LAMBDA x : x.consumer.username)]

getIngressControllerTags(cfg) == IF cfg.hasTagSupport THEN cfg.filterTags ELSE <<>>

\* ---------------------------------------------------------------------
\* cleanUpNullsInPluginConfigs
\* ---------------------------------------------------------------------
CleanCfg(c) == IF c = NilMap THEN NilMap
               ELSE [k \in {x \in DOMAIN c : c[x] # Null} |-> c[k]]
CleanPlugin(p) == [p EXCEPT !.config = CleanCfg(@)]

\* The routes loop runs over the top-level state.Routes once per service.
cleanUpNullsInPluginConfigs(d) ==
  [d EXCEPT
     !.services = MapSeq(@, LAMBDA s : [s EXCEPT !.plugins = MapSeq(@, CleanPlugin)]),
     !.routes = IF d.services = <<>> THEN @
                ELSE MapSeq(@, LAMBDA r : [r EXCEPT !.plugins = MapSeq(@, CleanPlugin)]),
     !.consumers = MapSeq(@, LAMBDA c : [c EXCEPT !.plugins = MapSeq(@, CleanPlugin)]),
     !.plugins = MapSeq(@, CleanPlugin)]

\* Config maps of the rendered document that are the caller's maps: consumer
\* plugins (copied by value, no fill) and top-level plugins whose fill did
\* not replace Config.  Deleting nulls from them deletes them in the caller's
\* desired-state tree.
SharedTopLevelConfig(p, sch) ==
  /\ p.config # NilMap
  /\ \/ p.name = NilStr
     \/ p.name = <<>>
     \/ sch[p.name] \in {"schemaErr", "fillErr"}
cleanUpAliasedTree(k, sch) ==
  [k EXCEPT
     !.consumers = MapSeq(@, LAMBDA c : [c EXCEPT !.plugins = MapSeq(@, CleanPlugin)]),
     !.plugins = MapSeq(@, LAMBDA p : IF SharedTopLevelConfig(p, sch)
                                      THEN CleanPlugin(p) ELSE p)]

\* ---------------------------------------------------------------------
\* JSON serialization
\* ---------------------------------------------------------------------
\* JSON texts: an object (its members in text order), the literal null,
\* text that is not a JSON object, or zero bytes.  Object keys are byte
\* strings.
JSONObject(pairs) == [kind |-> "object", pairs |-> pairs]
JSONNullLit == [kind |-> "null", pairs |-> <<>>]
JSONGarbage == [kind |-> "garbage", pairs |-> <<>>]
NoBytes == [kind |-> "empty", pairs |-> <<>>]

\* JSON member names of file.Content and of custom entities
KFormatVersion == <<95, 102, 111, 114, 109, 97, 116, 95, 118, 101, 114, 115, 105, 111, 110>>  \* "_format_version"
KInfo == <<95, 105, 110, 102, 111>>  \* "_info"
KWorkspace == <<95, 119, 111, 114, 107, 115, 112, 97, 99, 101>>  \* "_workspace"
KServices == <<115, 101, 114, 118, 105, 99, 101, 115>>  \* "services"
KRoutes == <<114, 111, 117, 116, 101, 115>>  \* "routes"
KConsumers == <<99, 111, 110, 115, 117, 109, 101, 114, 115>>  \* "consumers"
KPlugins == <<112, 108, 117, 103, 105, 110, 115>>  \* "plugins"
KUpstreams == <<117, 112, 115, 116, 114, 101, 97, 109, 115>>  \* "upstreams"
KCertificates == <<99, 101, 114, 116, 105, 102, 105, 99, 97, 116, 101, 115>>  \* "certificates"
KCACertificates == <<99, 97, 95, 99, 101, 114, 116, 105, 102, 105, 99, 97, 116, 101, 115>>  \* "ca_certificates"
KExtra == <<101, 120, 116, 114, 97>>  \* "extra"
KFoo == <<102, 111, 111>>  \* "foo"

\* json tags of file.Content in declaration order
ContentFieldOrder ==
  <<KFormatVersion, KInfo, KWorkspace, KServices, KRoutes, KConsumers,
    KPlugins, KUpstreams, KCertificates, KCACertificates>>

\* `config,omitempty`: a nil and an empty plugin Config both serialize as
\* an absent member
OmitEmptyConfig(p) ==
  IF p.config = EmptyCfg THEN [p EXCEPT !.config = NilMap] ELSE p
OmitEmptyPlugins(ps) == MapSeq(ps, OmitEmptyConfig)
OmitEmptyConfigs(d) ==
  [d EXCEPT
     !.services = MapSeq(@, LAMBDA s :
        [s EXCEPT !.plugins = OmitEmptyPlugins(@),
                  !.routes = MapSeq(@, LAMBDA r : [r EXCEPT !.plugins = OmitEmptyPlugins(@)])]),
     !.routes = MapSeq(@, LAMBDA r : [r EXCEPT !.plugins = OmitEmptyPlugins(@)]),
     !.consumers = MapSeq(@, LAMBDA c : [c EXCEPT !.plugins = OmitEmptyPlugins(@)]),
     !.plugins = OmitEmptyPlugins(@)]

\* the JSON object of a file.Content: omitempty fields left out when empty
ContentObject(d0) ==
  LET d == OmitEmptyConfigs(d0)
      field(key, v, present) == IF present THEN key :> v ELSE EmptyCfg
  IN (KFormatVersion :> d.formatVersion)
     @@ field(KInfo, d.info, d.info # NilInfo)
     @@ field(KServices, d.services, d.services # <<>>)
     @@ field(KRoutes, d.routes, d.routes # <<>>)
     @@ field(KConsumers, d.consumers, d.consumers # <<>>)
     @@ field(KPlugins, d.plugins, d.plugins # <<>>)
     @@ field(KUpstreams, d.upstreams, d.upstreams # <<>>)
     @@ field(KCertificates, d.certificates, d.certificates # <<>>)
     @@ field(KCACertificates, d.caCertificates, d.caCertificates # <<>>)

\* json.Marshal of a struct: present fields in declaration order
jsonMarshalContent(obj) ==
  LET present == SelectSeq(ContentFieldOrder, LAMBDA key : key \in DOMAIN obj)
  IN JSONObject([i \in 1..Len(present) |-> <<present[i], obj[present[i]]>>])

\* json.Marshal of a map[string]interface{}: every key, in byte order
RECURSIVE SortedKeys(_)
SortedKeys(S) ==
  IF S = {} THEN <<>>
  ELSE LET m == CHOOSE x \in S : \A y \in S : ~StrLess(y, x)
       IN <<m>> \o SortedKeys(S \ {m})
jsonMarshalMap(m) ==
  LET ks == SortedKeys(DOMAIN m)
  IN JSONObject([i \in 1..Len(ks) |-> <<ks[i], m[ks[i]]>>])

\* json.Unmarshal into map[string]interface{}: null gives a nil map, any
\* other non-object text is an error; a repeated key keeps its last value.
jsonUnmarshal(b) ==
  IF b.kind = "object"
  THEN LET last(key) == CHOOSE i \in DOMAIN b.pairs :
                          /\ b.pairs[i][1] = key
                          /\ \A j \in DOMAIN b.pairs : b.pairs[j][1] = key => j <= i
       IN [err |-> FALSE,
           m |-> [key \in {b.pairs[i][1] : i \in DOMAIN b.pairs} |-> b.pairs[last(key)][2]]]
  ELSE IF b.kind = "null" THEN [err |-> FALSE, m |-> EmptyCfg]
  ELSE [err |-> TRUE, m |-> EmptyCfg]

\* json.Marshal(targetContent)
jsonMarshal(content) == jsonMarshalContent(ContentObject(content))

\* ---------------------------------------------------------------------
\* generateSHA
\* ---------------------------------------------------------------------
\* sha256.Sum256(json.Marshal(content) ++ customEntities); the digest is
\* modelled as collision free over its input bytes (a JSON object is self
\* delimiting, so the concatenation determines both parts).
generateSHA(content, customEntities) ==
  <<"sha256", IF customEntities = NoBytes THEN <<jsonMarshal(content)>>
              ELSE <<jsonMarshal(content), customEntities>>>>

\* ---------------------------------------------------------------------
\* renderConfigWithCustomEntities
\* ---------------------------------------------------------------------
MergeCustomKeysOverride(mergeMap, custom) ==
  [key \in DOMAIN mergeMap \cup DOMAIN custom |->
     IF key \in DOMAIN custom THEN custom[key] ELSE mergeMap[key]]
\* lines 175-179: only keys absent from the core configuration are added
MergeCustomKeys(mergeMap, custom) ==
  [key \in DOMAIN mergeMap \cup DOMAIN custom |->
     IF key \in DOMAIN mergeMap THEN mergeMap[key] ELSE custom[key]]

\* coreObj is the JSON object of the file.Content (ContentObject)
renderConfigWithCustomEntities(coreObj, customEntities) ==
  LET kongCoreConfig == jsonMarshalContent(coreObj) IN
  IF customEntities.kind = "empty"
  THEN [err |-> FALSE, bytes |-> kongCoreConfig]
  ELSE LET mergeMap == jsonUnmarshal(kongCoreConfig).m
           c == jsonUnmarshal(customEntities)
       IN [err |-> FALSE,
           bytes |-> jsonMarshalMap(IF c.err THEN mergeMap
                                    ELSE MergeCustomKeys(mergeMap, c.m))]

\* ---------------------------------------------------------------------
\* OnUpdate
\* ---------------------------------------------------------------------
SkipSyncBroken(cfg, hash, shaSum) == FALSE
SkipSyncNoBypass(cfg, hash, shaSum) == hash = shaSum
\* optimization check of OnUpdate (lines 58-69)
SkipSync(cfg, hash, shaSum) == ~cfg.enableReverseSync /\ hash = shaSum

\* lines 75-78: the fingerprint is stored only when the strategy succeeded
StoreHash(old, shaSum, failed) == IF failed THEN old ELSE shaSum

\* outcomes of the gateway calls of each strategy
InMemoryOutcomes == {"ok", "postErr"}
DBModeOutcomes == {"ok", "dumpErr", "currentStateErr", "fileGetErr",
                   "targetStateErr", "syncerErr", "solveErrs"}
Outcomes(cfg) == IF cfg.inMemory THEN InMemoryOutcomes ELSE DBModeOutcomes

\* fetchCustomEntities: only in in-memory mode with a secret configured; a
\* failed fetch leaves customEntities nil.
CustomEntityBlobs ==
  {JSONObject(<< <<KRoutes, << [plugins |-> << [config |-> "a" :> Null] >>] >> >> >>)}
CustomEntitiesChoices(cfg) ==
  IF cfg.inMemory /\ cfg.kongCustomEntitiesSecret
  THEN {NoBytes} \cup CustomEntityBlobs ELSE {NoBytes}

\* ---------------------------------------------------------------------
\* Desired-state trees
\* ---------------------------------------------------------------------
Plugin(id, name, config, consumer, route, service) ==
  [id |-> id, name |-> name, config |-> config, enabled |-> NilP,
   protocols |-> <<>>, runOn |-> NilP,
   consumer |-> consumer, route |-> route, service |-> service]
Route(id, name, code) ==
  [id |-> id, name |-> name, httpsRedirectStatusCode |-> code, pathHandling |-> NilP]
Consumer(id, username, plugins) ==
  [consumer |-> [id |-> id, username |-> username], plugins |-> plugins,
   keyAuths |-> <<>>, hmacAuths |-> <<>>, basicAuths |-> <<>>,
   jwtAuths |-> <<>>, oauth2Creds |-> <<>>]

CfgOne == "a" :> "1"
CfgNull == ("a" :> Null) @@ ("b" :> "1")
CfgB == "b" :> "1"


SyncTree(rc, cc, tc) ==
  [services |-> << [service |-> [id |-> 1, name |-> SA],
                    plugins |-> << Plugin(1, SA, CfgOne, NilStr, NilStr, NilStr) >>,
                    routes |-> << [route |-> Route(1, SA, NilInt),
                                   plugins |-> << Plugin(2, SB, rc, NilStr, NilStr, NilStr) >>] >>] >>,
   plugins |-> << Plugin(3, SB, tc, NilStr, NilStr, NilStr) >>,
   upstreams |-> << [upstream |-> [id |-> 1, name |-> SA, algorithm |-> NilP],
                     targets |-> << [id |-> 1, target |-> SA] >>] >>,
   certificates |-> <<>>,
   caCertificates |-> <<>>,
   consumers |-> << Consumer(1, SA, << Plugin(4, SA, cc, NilStr, NilStr, NilStr) >>) >>]

TreeChoices ==
  {SyncTree(c[1], c[2], CfgNull) :
     c \in {<<CfgOne, CfgOne>>, <<CfgNull, CfgNull>>, <<CfgNull, CfgB>>}}

PluginNames == {SA, SB}
SchemaOutcomes == {"ok", "schemaErr", "fillErr"}
SyncSchemaOutcomes == {"ok", "schemaErr"}
FilterTags == <<"managed-by-ingress-controller">>
\* the custom-entities secret is read only in in-memory mode
Configs == {c \in [inMemory : BOOLEAN, enableReverseSync : BOOLEAN,
                   kongCustomEntitiesSecret : BOOLEAN, hasTagSupport : {TRUE},
                   filterTags : {FilterTags}] :
              c.kongCustomEntitiesSecret => c.inMemory}

\* ---------------------------------------------------------------------
\* toDeckContent on its own: desired-state trees drawn from bounded sets
\* ---------------------------------------------------------------------
MaxItems == 3
KeyAlphabet == {SA, SB, SAB}
KeySeqs == UNION {[1..n -> KeyAlphabet] : n \in 2..MaxItems}

P(id, name) == Plugin(id, name, CfgOne, NilStr, NilStr, NilStr)
Svc(id, name, plugins, routes) ==
  [service |-> [id |-> id, name |-> name], plugins |-> plugins, routes |-> routes]
Rt(id, name, plugins) == [route |-> Route(id, name, NilInt), plugins |-> plugins]
Up(id, name, targets) ==
  [upstream |-> [id |-> id, name |-> name, algorithm |-> NilP], targets |-> targets]
Tg(id, t) == [id |-> id, target |-> t]
Cert(id, c) == [id |-> id, cert |-> c]
Cons(id, username, plugins) ==
  [Consumer(id, username, plugins) EXCEPT
     !.keyAuths = << [id |-> 1, key |-> SA] >>,
     !.hmacAuths = << [id |-> 1, username |-> SA] >>,
     !.basicAuths = << [id |-> 1, username |-> SA] >>,
     !.jwtAuths = << [id |-> 1, key |-> SA] >>,
     !.oauth2Creds = << [id |-> 1, clientID |-> SA] >>]

BaseTree ==
  [services |-> << Svc(1, SA, << P(1, SA) >>, << Rt(1, SA, << P(2, SB) >>) >>) >>,
   plugins |-> << P(3, SA) >>,
   upstreams |-> << Up(1, SA, << Tg(1, SA) >>) >>,
   certificates |-> << Cert(1, SA) >>,
   caCertificates |-> << Cert(1, SA) >>,
   consumers |-> << Cons(1, SA, << P(4, SA) >>) >>]

Items(ks, Mk(_, _)) == [i \in 1..Len(ks) |-> Mk(i, ks[i])]
Cred(field, ks) == [i \in 1..Len(ks) |-> [id |-> i] @@ (field :> ks[i])]

\* BaseTree with the collection f holding one element per key of ks
FocusTree(f, ks) ==
  CASE f = "services" ->
         [BaseTree EXCEPT !.services = Items(ks, LAMBDA i, k : Svc(i, k, <<>>, <<>>))]
    [] f = "routes" ->
         [BaseTree EXCEPT !.services[1].routes = Items(ks, LAMBDA i, k : Rt(i, k, <<>>))]
    [] f = "servicePlugins" ->
         [BaseTree EXCEPT !.services[1].plugins = Items(ks, P)]
    [] f = "routePlugins" ->
         [BaseTree EXCEPT !.services[1].routes[1].plugins = Items(ks, P)]
    [] f = "plugins" ->
         [BaseTree EXCEPT !.plugins = Items(ks, P)]
    [] f = "scopedPlugins" ->
         [BaseTree EXCEPT !.plugins =
            Items(ks, LAMBDA i, k : Plugin(i, SA, CfgOne,
                                           IF i % 2 = 1 THEN k ELSE NilStr, NilStr,
                                           IF i % 2 = 0 THEN k ELSE NilStr))]
    [] f = "upstreams" ->
         [BaseTree EXCEPT !.upstreams = Items(ks, LAMBDA i, k : Up(i, k, <<>>))]
    [] f = "targets" ->
         [BaseTree EXCEPT !.upstreams[1].targets = Items(ks, Tg)]
    [] f = "certificates" -> [BaseTree EXCEPT !.certificates = Items(ks, Cert)]
    [] f = "caCertificates" -> [BaseTree EXCEPT !.caCertificates = Items(ks, Cert)]
    [] f = "consumers" ->
         [BaseTree EXCEPT !.consumers = Items(ks, LAMBDA i, k : Cons(i, k, <<>>))]
    [] f = "consumerPlugins" -> [BaseTree EXCEPT !.consumers[1].plugins = Items(ks, P)]
    [] f = "keyAuths" -> [BaseTree EXCEPT !.consumers[1].keyAuths = Cred("key", ks)]
    [] f = "hmacAuths" -> [BaseTree EXCEPT !.consumers[1].hmacAuths = Cred("username", ks)]
    [] f = "basicAuths" -> [BaseTree EXCEPT !.consumers[1].basicAuths = Cred("username", ks)]
    [] f = "jwtAuths" -> [BaseTree EXCEPT !.consumers[1].jwtAuths = Cred("key", ks)]
    [] f = "oauth2Creds" -> [BaseTree EXCEPT !.consumers[1].oauth2Creds = Cred("clientID", ks)]

Focuses == {"services", "routes", "servicePlugins", "routePlugins", "plugins",
            "scopedPlugins", "upstreams", "targets", "certificates",
            "caCertificates", "consumers", "consumerPlugins", "keyAuths",
            "hmacAuths", "basicAuths", "jwtAuths", "oauth2Creds"}

\* every plugin, route and upstream with its optional fields set or unset
WithFields(p, en, pr) == [p EXCEPT !.enabled = en, !.protocols = pr]
DefaultsTree(code, ph, alg, en, pr) ==
  [BaseTree EXCEPT
     !.services[1].plugins = MapSeq(@, LAMBDA p : WithFields(p, en, pr)),
     !.services[1].routes[1].route.httpsRedirectStatusCode = code,
     !.services[1].routes[1].route.pathHandling = ph,
     !.services[1].routes[1].plugins = MapSeq(@, LAMBDA p : WithFields(p, en, pr)),
     !.plugins = MapSeq(@, LAMBDA p : WithFields(p, en, pr)),
     !.upstreams[1].upstream.algorithm = alg,
     !.consumers[1].plugins = MapSeq(@, LAMBDA p : WithFields(p, en, pr))]
DefaultsTrees ==
  {DefaultsTree(code, ph, alg, en, pr) :
     code \in {NilInt, 301}, ph \in {NilP, "v1"},
     alg \in {NilP, "least-connections"}, en \in {NilP, "false"},
     pr \in {<<>>, <<"grpc">>}}

\* plugins with a nil or empty name or a nil config
NameTrees ==
  {[BaseTree EXCEPT !.services[1].plugins[1].name = n] : n \in {NilStr, <<>>}}
  \cup {[BaseTree EXCEPT !.services[1].routes[1].plugins[1].name = n] : n \in {NilStr, <<>>}}
  \cup {[BaseTree EXCEPT !.plugins[1].name = n] : n \in {NilStr, <<>>}}
  \cup {[BaseTree EXCEPT !.plugins[1].config = NilMap]}
  \cup {[BaseTree EXCEPT !.consumers[1].plugins[1].name = n] : n \in {NilStr, <<>>}}
  \cup {[BaseTree EXCEPT !.services = <<>>, !.plugins[1].name = NilStr]}
  \cup {[BaseTree EXCEPT !.services[1].routes = << Rt(1, SA, <<>>), Rt(2, n, <<>>) >>]
         : n \in {NilStr, SB}}
  \cup {[BaseTree EXCEPT !.services[1].routes[1].route.name = NilStr]}
  \cup {[BaseTree EXCEPT !.consumers[1].keyAuths = Cred("key", << SB, n >>)]
         : n \in {NilStr, SA}}
  \cup {[BaseTree EXCEPT !.upstreams[1].upstream.name = NilStr]}

RenderTrees ==
  {FocusTree(f, ks) : f \in Focuses, ks \in KeySeqs} \cup DefaultsTrees \cup NameTrees

RenderTags == <<>>
NoRender == [done |-> FALSE, panic |-> FALSE, doc |-> NilP]


\* core documents and custom-entity blobs for the merge
CoreValues == {"c1", "c2"}
CustomValues == {"x1", "x2"}
CoreObjects ==
  {(KFormatVersion :> "1.1") @@ svc @@ plg :
     svc \in {EmptyCfg} \cup {KServices :> v : v \in CoreValues},
     plg \in {EmptyCfg, KPlugins :> "c1"}}
CustomKeys == <<KServices, KFoo, KExtra, KPlugins>>
CustomBlobs ==
  {NoBytes, JSONNullLit, JSONGarbage}
  \cup {JSONObject(SelectSeq([i \in 1..Len(CustomKeys) |->
                                <<CustomKeys[i], vals[CustomKeys[i]]>>],
                               LAMBDA pr : pr[2] # "absent")) :
        vals \in [{CustomKeys[i] : i \in DOMAIN CustomKeys} -> CustomValues \cup {"absent"}]}
NoMerge == [done |-> FALSE, err |-> FALSE, bytes |-> NoBytes]

MaxInv == 3

NoInv == [kind |-> "none", treeIn |-> NilP, custom |-> NoBytes, content |-> NilP,
          shaSum |-> NilP, prevHash |-> NilP, call |-> "none", result |-> NilP,
          submitted |-> NilP, treeOut |-> NilP, changedBefore |-> FALSE,
          pred |-> [kind |-> "none", treeIn |-> NilP, custom |-> NoBytes,
                    content |-> NilP, result |-> NilP]]

\* ---------------------------------------------------------------------
\* State: the controller (OnUpdate), and the inputs and outputs of the pure
\* rendering functions checked on their own
\* ---------------------------------------------------------------------
VARIABLES tree, cfg, schema, runningConfigHash, nInv, inv, envChanged
VARIABLES rtree, rschema, rout
VARIABLES mcore, mcustom, mout
syncVars == <<tree, cfg, schema, runningConfigHash, nInv, inv, envChanged>>
renderVars == <<rtree, rschema, rout>>
mergeVars == <<mcore, mcustom, mout>>
vars == <<syncVars, renderVars, mergeVars>>

SyncFixed ==
  /\ tree = SyncTree(CfgOne, CfgOne, CfgNull)
  /\ cfg = [inMemory |-> TRUE, enableReverseSync |-> FALSE,
            kongCustomEntitiesSecret |-> FALSE, hasTagSupport |-> TRUE,
            filterTags |-> FilterTags]
  /\ schema = [n \in PluginNames |-> "ok"]
  /\ runningConfigHash = NilHash
  /\ nInv = 0
  /\ inv = NoInv
  /\ envChanged = FALSE
RenderFixed ==
  /\ rtree = BaseTree
  /\ rschema = [n \in KeyAlphabet |-> "ok"]
  /\ rout = NoRender
MergeFixed ==
  /\ mcore = KFormatVersion :> "1.1"
  /\ mcustom = NoBytes
  /\ mout = NoMerge

Init ==
  /\ tree \in TreeChoices
  /\ cfg \in Configs
  /\ schema \in [PluginNames -> SyncSchemaOutcomes]
  /\ runningConfigHash = NilHash
  /\ nInv = 0
  /\ inv = NoInv
  /\ envChanged = FALSE
  /\ RenderFixed
  /\ MergeFixed

OnUpdate ==
  /\ nInv < MaxInv
  /\ \E custom \in CustomEntitiesChoices(cfg), outcome \in Outcomes(cfg) :
     LET content == toDeckContent(tree, schema, getIngressControllerTags(cfg))
         shaSum == IF ~cfg.enableReverseSync THEN generateSHA(content, custom) ELSE NilHash
         skip == SkipSync(cfg, runningConfigHash, shaSum)
         cleaned == cleanUpNullsInPluginConfigs([content EXCEPT !.info = NilInfo])
         submitted == renderConfigWithCustomEntities(ContentObject(cleaned), custom).bytes
         call == IF skip THEN "none" ELSE IF cfg.inMemory THEN "post" ELSE "dump"
         failed == ~skip /\ outcome # "ok"
     IN /\ runningConfigHash' = IF skip THEN runningConfigHash
                                ELSE StoreHash(runningConfigHash, shaSum, failed)
        /\ tree' = IF call = "post" THEN cleanUpAliasedTree(tree, schema) ELSE tree
        /\ inv' = [kind |-> "inv", treeIn |-> tree, custom |-> custom,
                   content |-> content, shaSum |-> shaSum,
                   prevHash |-> runningConfigHash, call |-> call,
                   result |-> IF failed THEN "err" ELSE "ok",
                   submitted |-> IF call = "post" THEN submitted ELSE NilP,
                   treeOut |-> tree', changedBefore |-> envChanged,
                   pred |-> [kind |-> inv.kind, treeIn |-> inv.treeIn,
                             custom |-> inv.custom, content |-> inv.content,
                             result |-> inv.result]]
  /\ nInv' = nInv + 1
  /\ envChanged' = FALSE
  /\ UNCHANGED <<cfg, schema, renderVars, mergeVars>>

\* the caller hands a different desired state to the next invocation
ChangeDesiredState ==
  /\ \E t \in TreeChoices \ {tree} : tree' = t
  /\ envChanged' = TRUE
  /\ UNCHANGED <<cfg, schema, runningConfigHash, nInv, inv, renderVars, mergeVars>>

Next == OnUpdate \/ ChangeDesiredState
Spec == Init /\ [][Next]_vars

\* ---------------------------------------------------------------------
\* Properties of OnUpdate
\* ---------------------------------------------------------------------
Invoked == inv.kind = "inv"
\* the caller hands the same desired-state object again after a failure
RetryOfFailed ==
  /\ Invoked
  /\ inv.pred.kind = "inv"
  /\ inv.pred.result = "err"
  /\ ~inv.changedBefore
  /\ inv.custom = inv.pred.custom

\* C1: with reverse sync disabled, an invocation whose fingerprint equals the
\* stored fingerprint returns success without any gateway call.
NoOpSkip ==
  Invoked /\ ~cfg.enableReverseSync /\ inv.prevHash = inv.shaSum
    => inv.call = "none" /\ inv.result = "ok"
NoOpSkipWitness ==
  /\ Invoked /\ nInv >= 2
  /\ ~cfg.enableReverseSync /\ inv.prevHash = inv.shaSum
  /\ inv.call = "none"

\* C2: the stored fingerprint changes only on a fully successful invocation;
\* a failed invocation leaves it unchanged, and the next invocation with the
\* same desired state and custom entities calls the gateway again.
FingerprintOnlyOnSuccess ==
  /\ Invoked /\ runningConfigHash # inv.prevHash
       => inv.result = "ok" /\ inv.call # "none"
  /\ Invoked /\ inv.result = "err" => runningConfigHash = inv.prevHash
  /\ RetryOfFailed => inv.call # "none"
\* C3: with reverse sync enabled every invocation calls the gateway.
ForcedModeBypass ==
  Invoked /\ cfg.enableReverseSync => inv.call # "none"
ForcedModeBypassWitness ==
  /\ Invoked /\ cfg.enableReverseSync
  /\ inv.pred.kind = "inv" /\ inv.pred.result = "ok"
  /\ inv.treeIn = inv.pred.treeIn /\ inv.custom = inv.pred.custom
  /\ inv.call # "none"

NoNullCfg(p) == p.config = NilMap \/ \A k \in DOMAIN p.config : p.config[k] # Null
NoNullPlugins(ps) == \A i \in DOMAIN ps : NoNullCfg(ps[i])

\* C4: no plugin config map of the document POSTed to /config (service,
\* route-under-service, consumer and top-level plugins of the body, after
\* the custom-entity merge) has a null value.
NullStripping ==
  inv.call = "post" =>
    LET m == jsonUnmarshal(inv.submitted).m
        member(key) == IF key \in DOMAIN m THEN m[key] ELSE <<>>
        services == member(KServices)
        consumers == member(KConsumers)
    IN /\ \A i \in DOMAIN services :
            /\ NoNullPlugins(services[i].plugins)
            /\ \A j \in DOMAIN services[i].routes :
                  NoNullPlugins(services[i].routes[j].plugins)
       /\ \A i \in DOMAIN consumers : NoNullPlugins(consumers[i].plugins)
       /\ NoNullPlugins(member(KPlugins))

\* C7: OnUpdate leaves the caller's desired-state tree unchanged.
RenderDoesNotMutate == Invoked => inv.treeOut = inv.treeIn

\* C10: two consecutive invocations on the same tree, with no change in
\* between and the same custom entities, render identical documents and
\* fingerprints.
Determinism ==
  Invoked /\ inv.pred.kind = "inv" /\ ~inv.changedBefore
  /\ inv.custom = inv.pred.custom
    => /\ jsonMarshal(inv.content) = jsonMarshal(inv.pred.content)
       /\ generateSHA(inv.content, inv.custom)
            = generateSHA(inv.pred.content, inv.pred.custom)

RenderInit ==
  /\ rtree \in RenderTrees
  /\ rschema \in [KeyAlphabet -> SchemaOutcomes]
  /\ rout = NoRender
  /\ SyncFixed
  /\ MergeFixed

Render ==
  /\ ~rout.done
  /\ rout' = IF toDeckContentPanics(rtree)
             THEN [done |-> TRUE, panic |-> TRUE, doc |-> NilP]
             ELSE [done |-> TRUE, panic |-> FALSE,
                   doc |-> toDeckContent(rtree, rschema, RenderTags)]
  /\ UNCHANGED <<rtree, rschema, syncVars, mergeVars>>

RenderNext == Render
RenderSpec == RenderInit /\ [][RenderNext]_vars


\* ---------------------------------------------------------------------
\* Properties of toDeckContent
\* ---------------------------------------------------------------------
SortedStable(seq, K(_), Id(_)) ==
  \A i \in 1..(Len(seq) - 1) :
     /\ ~StrLess(K(seq[i + 1]), K(seq[i]))
     /\ K(seq[i]) = K(seq[i + 1]) => Id(seq[i]) < Id(seq[i + 1])
PluginSortedByName(ps) == SortedStable(ps, LAMBDA x : x.name, LAMBDA x : x.id)
IdOf(x) == x.id

\* C6: every sibling collection of the rendered document is sorted by its
\* natural key, and elements with equal keys keep their input order (the
\* inputs list every collection in ascending id order).
CanonicalOrdering ==
  rout.done /\ ~rout.panic =>
    LET d == rout.doc IN
    /\ SortedStable(d.services, LAMBDA x : x.service.name, LAMBDA x : x.service.id)
    /\ \A i \in DOMAIN d.services :
         /\ PluginSortedByName(d.services[i].plugins)
         /\ SortedStable(d.services[i].routes, LAMBDA x : x.route.name,
                         LAMBDA x : x.route.id)
         /\ \A j \in DOMAIN d.services[i].routes :
               PluginSortedByName(d.services[i].routes[j].plugins)
    /\ SortedStable(d.plugins, pluginString, IdOf)
    /\ SortedStable(d.upstreams, LAMBDA x : x.upstream.name, LAMBDA x : x.upstream.id)
    /\ \A i \in DOMAIN d.upstreams :
         SortedStable(d.upstreams[i].targets, LAMBDA x : x.target, IdOf)
    /\ SortedStable(d.certificates, LAMBDA x : x.cert, IdOf)
    /\ SortedStable(d.caCertificates, LAMBDA x : x.cert, IdOf)
    /\ SortedStable(d.consumers, LAMBDA x : x.consumer.username, LAMBDA x : x.consumer.id)
    /\ \A i \in DOMAIN d.consumers :
         LET c == d.consumers[i] IN
         /\ PluginSortedByName(c.plugins)
         /\ SortedStable(c.keyAuths, LAMBDA x : x.key, IdOf)
         /\ SortedStable(c.hmacAuths, LAMBDA x : x.username, IdOf)
         /\ SortedStable(c.basicAuths, LAMBDA x : x.username, IdOf)
         /\ SortedStable(c.jwtAuths, LAMBDA x : x.key, IdOf)
         /\ SortedStable(c.oauth2Creds, LAMBDA x : x.clientID, IdOf)

\* input and output elements of a collection paired by id
Match(in, out, Id(_), R(_, _)) ==
  \A i \in DOMAIN in : \A j \in DOMAIN out : Id(in[i]) = Id(out[j]) => R(in[i], out[j])
FillSucceeds(p0) == p0.name \notin {NilStr, <<>>} /\ rschema[p0.name] = "ok"
PluginDefaults(p0, p) ==
  FillSucceeds(p0) =>
    /\ p.enabled = IF p0.enabled = NilP THEN "true" ELSE p0.enabled
    /\ p.protocols = IF p0.protocols = <<>> THEN <<"http", "https">> ELSE p0.protocols
    /\ p.runOn = NilP
RouteDefaults(r0, r) ==
  /\ r.httpsRedirectStatusCode =
       IF r0.httpsRedirectStatusCode = NilInt THEN 426 ELSE r0.httpsRedirectStatusCode
  /\ r.pathHandling = IF r0.pathHandling = NilP THEN "v0" ELSE r0.pathHandling

\* C8: routes get redirect code 426 and path handling "v0" when unset,
\* upstreams get "round-robin", and every plugin whose fill succeeds,
\* consumer plugins included, gets enabled, protocols and a cleared run_on.
DefaultCompletion ==
  rout.done /\ ~rout.panic =>
    LET d == rout.doc IN
    /\ Match(rtree.services, d.services, LAMBDA x : x.service.id,
             LAMBDA s0, s1 :
               /\ Match(s0.plugins, s1.plugins, IdOf, PluginDefaults)
               /\ Match(s0.routes, s1.routes, LAMBDA x : x.route.id,
                        LAMBDA r0, r1 :
                          /\ RouteDefaults(r0.route, r1.route)
                          /\ Match(r0.plugins, r1.plugins, IdOf, PluginDefaults)))
    /\ Match(rtree.plugins, d.plugins, IdOf, PluginDefaults)
    /\ Match(rtree.upstreams, d.upstreams, LAMBDA x : x.upstream.id,
             LAMBDA u0, u1 : u1.upstream.algorithm =
               IF u0.upstream.algorithm = NilP THEN "round-robin"
               ELSE u0.upstream.algorithm)
    /\ Match(rtree.consumers, d.consumers, LAMBDA x : x.consumer.id,
             LAMBDA c0, c1 : Match(c0.plugins, c1.plugins, IdOf, PluginDefaults))

SomeFillFails(k) ==
  \/ \E i \in DOMAIN k.services :
       LET s == k.services[i] IN
       \/ \E j \in DOMAIN s.plugins : ~FillSucceeds(s.plugins[j])
       \/ \E r \in DOMAIN s.routes : \E j \in DOMAIN s.routes[r].plugins :
             ~FillSucceeds(s.routes[r].plugins[j])
  \/ \E i \in DOMAIN k.plugins : ~FillSucceeds(k.plugins[i])
Emitted(in, out) ==
  \A i \in DOMAIN in :
     ~FillSucceeds(in[i]) =>
        \E j \in DOMAIN out : out[j].id = in[i].id /\ out[j].name = in[i].name

\* C9: when fillPlugin fails for a service, route or top-level plugin (and
\* no other entity's nil sort key panics), toDeckContent completes and
\* emits the plugin whose fill failed, with every other entity.
FillFailureNonFatal ==
  rout.done /\ SomeFillFails(rtree) /\ ~SortKeyPanics(rtree) =>
    /\ ~rout.panic
    /\ \A i \in DOMAIN rtree.services :
         \E k \in DOMAIN rout.doc.services :
            LET s0 == rtree.services[i]
                s1 == rout.doc.services[k]
            IN /\ s1.service.id = s0.service.id
               /\ Emitted(s0.plugins, s1.plugins)
               /\ \A r \in DOMAIN s0.routes :
                     \E q \in DOMAIN s1.routes :
                        /\ s1.routes[q].route.id = s0.routes[r].route.id
                        /\ Emitted(s0.routes[r].plugins, s1.routes[q].plugins)
    /\ Emitted(rtree.plugins, rout.doc.plugins)
    /\ Len(rout.doc.upstreams) = Len(rtree.upstreams)
    /\ Len(rout.doc.consumers) = Len(rtree.consumers)


\* ---------------------------------------------------------------------
\* renderConfigWithCustomEntities on its own
\* ---------------------------------------------------------------------
MergeInit ==
  /\ mcore \in CoreObjects
  /\ mcustom \in CustomBlobs
  /\ mout = NoMerge
  /\ SyncFixed
  /\ RenderFixed

Merge ==
  /\ ~mout.done
  /\ LET r == renderConfigWithCustomEntities(mcore, mcustom)
     IN mout' = [done |-> TRUE, err |-> r.err, bytes |-> r.bytes]
  /\ UNCHANGED <<mcore, mcustom, syncVars, renderVars>>

MergeNext == Merge
MergeSpec == MergeInit /\ [][MergeNext]_vars

\* C5: with no custom bytes the result is the core serialization; otherwise
\* the result maps every core key to its core value, adds the keys found
\* only in the custom blob with their custom values and nothing else; a
\* custom blob that does not parse leaves the core keys alone, without error.
CustomEntityMerge ==
  mout.done =>
    /\ ~mout.err
    /\ IF mcustom = NoBytes
       THEN mout.bytes = jsonMarshalContent(mcore)
       ELSE LET r == jsonUnmarshal(mout.bytes)
                c == jsonUnmarshal(mcustom)
                extra == IF c.err THEN {} ELSE DOMAIN c.m \ DOMAIN mcore
            IN /\ ~r.err
               /\ DOMAIN r.m = DOMAIN mcore \cup extra
               /\ \A k \in DOMAIN mcore : r.m[k] = mcore[k]
               /\ \A k \in extra : r.m[k] = c.m[k]
CustomEntityMergeWitness ==
  /\ mout.done
  /\ mcustom.kind = "object"
  /\ KServices \in DOMAIN mcore
  /\ \E i, j \in DOMAIN mcustom.pairs :
        mcustom.pairs[i][1] = KServices /\ mcustom.pairs[j][1] = KFoo

====
